---------------------------- MODULE Spec2Model ----------------------------
(***************************************************************************)
(* A model of the RevEase review backend: the request handlers of          *)
(* backend/review/main.py and the ReviewService of                         *)
(* backend/services/service.py, over a "reviews" table.                    *)
(*                                                                         *)
(* A text is a sequence of one-character strings.  The two placeholders    *)
(* that redaction writes are kept as one element each: they hold no digit, *)
(* no parenthesis and no "@", and they begin and end with a bracket, which *)
(* is not a word character, so to every later pattern they behave as the   *)
(* sixteen characters they stand for.                                      *)
(***************************************************************************)
EXTENDS Integers, Sequences, FiniteSets, TLC

-----------------------------------------------------------------------------
(* Character classes of the regular expressions in redact_sensitive_info.  *)

Digit == {"0", "1", "2", "3", "4", "5", "6", "7", "8", "9"}

Alpha ==
    {"a", "b", "c", "d", "e", "f", "g", "h", "i", "j", "k", "l", "m",
     "n", "o", "p", "q", "r", "s", "t", "u", "v", "w", "x", "y", "z",
     "A", "B", "C", "D", "E", "F", "G", "H", "I", "J", "K", "L", "M",
     "N", "O", "P", "Q", "R", "S", "T", "U", "V", "W", "X", "Y", "Z"}

\* \w of Python's re on str
WordChar == Digit \cup Alpha \cup {"_"}

\* \s
Space == {" ", "\t", "\n", "\r"}

\* [A-Za-z0-9._%+-]
EmailLocal == Digit \cup Alpha \cup {".", "_", "%", "+", "-"}

\* [A-Za-z0-9.-]
EmailDomain == Digit \cup Alpha \cup {".", "-"}

\* [A-Z|a-z]
EmailTld == Alpha \cup {"|"}

EMAIL_REDACTED == "[EMAIL REDACTED]"

PHONE_REDACTED == "[PHONE REDACTED]"

\* The character at position i (1-based), "" outside the text.
At(text, i) == IF i \in 1..Len(text) THEN text[i] ELSE ""

\* \b just before position i: exactly one of the two neighbours is a word
\* character (the ends of the text count as non-word).
IsBoundary(text, i) == (At(text, i - 1) \in WordChar) # (At(text, i) \in WordChar)

\* The length of the longest run of characters of class C starting at i:
\* what a greedy C* consumes.
RunLen(text, i, C) ==
    CHOOSE n \in 0..(Len(text) + 1) :
        /\ \A k \in 0..(n - 1) : At(text, i + k) \in C
        /\ At(text, i + n) \notin C

\* Whether the characters from position i on are, one by one, in the
\* classes of shape.
MatchShape(text, i, shape) ==
    \A k \in 1..Len(shape) : At(text, i + k - 1) \in shape[k]

DashedShape ==
    <<Digit, Digit, Digit, {"-"}, Digit, Digit, Digit, {"-"},
      Digit, Digit, Digit, Digit>>

DottedShape ==
    <<Digit, Digit, Digit, {"."}, Digit, Digit, Digit, {"."},
      Digit, Digit, Digit, Digit>>

BareShape ==
    <<Digit, Digit, Digit, Digit, Digit, Digit, Digit, Digit, Digit, Digit>>

AreaShape == <<{"("}, Digit, Digit, Digit, {")"}>>

LocalShape == <<Digit, Digit, Digit, {"-"}, Digit, Digit, Digit, Digit>>

\* Where a match of the e-mail pattern that starts at i ends (the position
\* after its last character), 0 when none starts at i.  The local part is
\* the whole run up to the "@"; the domain is taken as long as possible and
\* given back until a "." followed by at least two TLD characters and a
\* word boundary is found, the TLD again as long as possible.
EmailMatchEnd(text, i) ==
    LET l == RunLen(text, i, EmailLocal)
        p == i + l + 1
        m == RunLen(text, p, EmailDomain)
        cands == {dk \in (1..m) \X (2..(Len(text) + 1)) :
                     /\ At(text, p + dk[1]) = "."
                     /\ dk[2] <= RunLen(text, p + dk[1] + 1, EmailTld)
                     /\ IsBoundary(text, p + dk[1] + 1 + dk[2])}
        best == CHOOSE dk \in cands :
                    \A o \in cands :
                        \/ o[1] < dk[1]
                        \/ (o[1] = dk[1] /\ o[2] <= dk[2])
    IN  IF /\ IsBoundary(text, i)
           /\ l >= 1
           /\ At(text, i + l) = "@"
           /\ cands # {}
        THEN p + best[1] + 1 + best[2]
        ELSE 0

\* Where a match of the named phone pattern that starts at i ends, 0 when
\* none does.
PhoneMatchEnd(pattern, text, i) ==
    CASE pattern = "dashed" ->
            IF /\ IsBoundary(text, i)
               /\ MatchShape(text, i, DashedShape)
               /\ IsBoundary(text, i + Len(DashedShape))
            THEN i + Len(DashedShape) ELSE 0
      [] pattern = "paren" ->
            LET q == i + Len(AreaShape) + RunLen(text, i + Len(AreaShape), Space)
            IN  IF /\ IsBoundary(text, i)
                   /\ MatchShape(text, i, AreaShape)
                   /\ MatchShape(text, q, LocalShape)
                   /\ IsBoundary(text, q + Len(LocalShape))
                THEN q + Len(LocalShape) ELSE 0
      [] pattern = "dotted" ->
            IF /\ IsBoundary(text, i)
               /\ MatchShape(text, i, DottedShape)
               /\ IsBoundary(text, i + Len(DottedShape))
            THEN i + Len(DottedShape) ELSE 0
      [] pattern = "bare" ->
            IF /\ IsBoundary(text, i)
               /\ MatchShape(text, i, BareShape)
               /\ IsBoundary(text, i + Len(BareShape))
            THEN i + Len(BareShape) ELSE 0

MatchEnd(pattern, text, i) ==
    IF pattern = "email" THEN EmailMatchEnd(text, i)
    ELSE PhoneMatchEnd(pattern, text, i)

Placeholder(pattern) ==
    IF pattern = "email" THEN EMAIL_REDACTED ELSE PHONE_REDACTED

\* re.sub(pattern, placeholder, text): the leftmost match is replaced and
\* the scan goes on after it; a character no match starts at is copied.
RECURSIVE SubFrom(_, _, _)
SubFrom(pattern, text, i) ==
    IF i > Len(text) THEN <<>>
    ELSE LET e == MatchEnd(pattern, text, i)
         IN  IF e > 0
             THEN <<Placeholder(pattern)>> \o SubFrom(pattern, text, e)
             ELSE <<text[i]>> \o SubFrom(pattern, text, i + 1)

Sub(pattern, text) == SubFrom(pattern, text, 1)

\* phone_patterns, in the order of the list
PhonePatterns == <<"dashed", "paren", "dotted", "bare">>

\* The e-mail pattern first, then each phone pattern in turn, each on the
\* result of the one before.
redact_sensitive_info(text) ==
    Sub(PhonePatterns[4],
        Sub(PhonePatterns[3],
            Sub(PhonePatterns[2],
                Sub(PhonePatterns[1],
                    Sub("email", text)))))

-----------------------------------------------------------------------------
(* Bounds of the model and the inputs the handlers are driven with.        *)

\* Rows the reviews table may hold.
MaxReviews == 2

\* Records in one ingest request.
MaxBatch == 2

\* suggest-reply requests in progress at once (awaiting the model, or with
\* their reply persistence still scheduled).
MaxPending == 1

\* A column the store returns as null / a Python None.
NULL == "<null>"

\* Session identifiers (UUIDs) and a header value that is no UUID.
Sessions == {"s1", "s2"}

BadHeader == "not-a-uuid"

Headers == Sessions \cup {BadHeader}

\* UUID(x_session_id) succeeds
IsUUID(h) == h \in Sessions

Ratings == 1..5

Labels == {"positive", "neutral", "negative"}

TextEmail == <<"h", "i", " ", "a", "@", "b", ".", "c", "o">>

TextPhone == <<"5", "5", "5", "-", "1", "2", "3", "-", "4", "5", "6", "7">>

TextPlain == <<"o", "k">>

\* The review-create records the ingest requests are built from: both
\* sessions, a rating of each kind, texts with and without something to
\* redact, with and without a topic.
SampleReviews ==
    {[session_id |-> "s1", location |-> "Downtown", rating |-> 5,
      text |-> TextEmail, topic |-> NULL],
     [session_id |-> "s2", location |-> "Downtown", rating |-> 2,
      text |-> TextPhone, topic |-> "service"],
     [session_id |-> "s1", location |-> "Airport", rating |-> 3,
      text |-> TextPlain, topic |-> "service"]}

Batches ==
    UNION {[1..n -> SampleReviews] : n \in 0..MaxBatch}

-----------------------------------------------------------------------------
VARIABLES
    database_available, \* the service came up with a working store client
    gemini_model,       \* a model credential is configured
    reviews,            \* the reviews table, rows in insertion order
    submitted,          \* per row, the text the client sent (history)
    analysis_tasks,     \* sentiment tasks created by create_review
    reply_requests,     \* suggest-reply handlers awaiting the model
    background_tasks,   \* scheduled save_reply_to_db calls
    failed_updates,     \* ids whose sentiment update the store refused (history)
    task_exception      \* an exception has left a background task

vars ==
    <<database_available, gemini_model, reviews, submitted, analysis_tasks,
      reply_requests, background_tasks, failed_updates, task_exception>>

\* What no request handler touches.
service == <<database_available, gemini_model, failed_updates, task_exception>>

-----------------------------------------------------------------------------
(* The store: the queries the service issues.                              *)

\* SelectSeq without the operator argument: the rows of s that are in set.
RECURSIVE Filter(_, _)
Filter(s, keep) ==
    IF s = <<>> THEN <<>>
    ELSE (IF Head(s) \in keep THEN <<Head(s)>> ELSE <<>>) \o Filter(Tail(s), keep)

Rows(rows) == {rows[i] : i \in 1..Len(rows)}

\* The query without its session filter.
SelectReviewAnySession(rows, review_id, session) ==
    Filter(rows, {r \in Rows(rows) : r.id = review_id})

\* select * where id = review_id and session_id = session
SelectReview(rows, review_id, session) ==
    Filter(rows, {r \in Rows(rows) : r.id = review_id /\ r.session_id = session})

\* select * where session_id = session
SelectSession(rows, session) ==
    Filter(rows, {r \in Rows(rows) : r.session_id = session})

\* The reply column when it is null.  A reply is a sequence of pieces of
\* text, never empty: a template's wording around the location, or what the
\* model wrote.
NoReply == <<>>

\* The row the store returns for an insert: it assigns the id and leaves
\* sentiment and reply null.
InsertedRow(rows, rec) ==
    [id |-> Len(rows) + 1, session_id |-> rec.session_id,
     location |-> rec.location, rating |-> rec.rating, text |-> rec.text,
     topic |-> rec.topic, sentiment |-> NULL, reply |-> NoReply]

\* The update writing the whole row back as the insert returned it, with
\* the one column set.
UpdateWholeRow(rows, id, column, value, ok) ==
    IF ok
    THEN [i \in 1..Len(rows) |->
            IF rows[i].id = id
            THEN [[rows[i] EXCEPT !.sentiment = NULL, !.reply = NoReply]
                     EXCEPT ![column] = value]
            ELSE rows[i]]
    ELSE rows

\* The update without its eq("id", id) filter: every row gets the value.
UpdateColumnOfAllRows(rows, id, column, value, ok) ==
    IF ok
    THEN [i \in 1..Len(rows) |-> [rows[i] EXCEPT ![column] = value]]
    ELSE rows

\* update(fields).eq("id", id): only the named column of the rows with that
\* id changes; a call that fails changes nothing.
UpdateColumn(rows, id, column, value, ok) ==
    IF ok
    THEN [i \in 1..Len(rows) |->
            IF rows[i].id = id THEN [rows[i] EXCEPT ![column] = value]
            ELSE rows[i]]
    ELSE rows

-----------------------------------------------------------------------------
(* Sentiment analysis.                                                     *)

\* The heuristic with the upper comparison made strict.
RatingAbove4Sentiment(rating) ==
    IF rating > 4 THEN "positive"
    ELSE IF rating <= 2 THEN "negative"
    ELSE "neutral"

get_rating_based_sentiment(rating) ==
    IF rating >= 4 THEN "positive"
    ELSE IF rating <= 2 THEN "negative"
    ELSE "neutral"

\* A dict as _async_generate_ai_analysis reads it: whether it is non-empty,
\* whether it has "tags", whether tags has "sentiment" and its value.
get_rating_based_analysis(review) ==
    [truthy |-> TRUE, has_tags |-> TRUE, has_sentiment |-> TRUE,
     sentiment |-> get_rating_based_sentiment(review.rating),
     reasoning_log |-> "fallback"]

ModelDict(has_tags, has_sentiment, sentiment) ==
    [truthy |-> TRUE, has_tags |-> has_tags, has_sentiment |-> has_sentiment,
     sentiment |-> sentiment, reasoning_log |-> "model"]

NoDict == ModelDict(FALSE, FALSE, NULL)

\* What generate_content can do for the analysis prompt: raise, answer
\* nothing, answer text that is not JSON, or answer a JSON object: without
\* "tags", with tags that lack "sentiment", or with a sentiment value (one
\* of the labels, or another word).
AnalysisOutcomes ==
    {[kind |-> "raise", value |-> NoDict],
     [kind |-> "empty", value |-> NoDict],
     [kind |-> "not_json", value |-> NoDict],
     [kind |-> "json", value |-> ModelDict(FALSE, FALSE, NULL)],
     [kind |-> "json", value |-> ModelDict(TRUE, FALSE, NULL)],
     [kind |-> "json", value |-> ModelDict(TRUE, TRUE, "negative")],
     [kind |-> "json", value |-> ModelDict(TRUE, TRUE, "mixed")]}

NoCredential == [kind |-> "no_credential", value |-> NoDict]

\* generate_ai_analysis: the fallback without a model, when the call raises,
\* when the response is empty and when it is not JSON; else json.loads of
\* the response, as it is.
generate_ai_analysis(has_model, review, outcome) ==
    IF ~has_model THEN get_rating_based_analysis(review)
    ELSE IF outcome.kind = "json" THEN outcome.value
    ELSE get_rating_based_analysis(review)

\* ai_response and 'tags' in ai_response
AnalysisUpdates(ai_response) == ai_response.truthy /\ ai_response.has_tags

\* ai_response['tags'].get('sentiment', '')
AnalysisSentiment(ai_response) ==
    IF ai_response.has_sentiment THEN ai_response.sentiment ELSE ""

\* The task function without its try/except.
TaskRaisesUncaught(call_failed) == call_failed

\* try: ... except Exception: pass -- whether a failed store call leaves
\* the task function as an exception.
TaskRaises(call_failed) == FALSE

\* The text of the prompt's "Review:" line.
PromptText(review) == review.text

\* No prompt sent yet.
NoPrompt == <<"(no prompt)">>

-----------------------------------------------------------------------------
(* Responses.  What a handler returns is a function of the request and of  *)
(* the state it runs in; a handler that only reads changes nothing.        *)

\* The status, the error detail or "", and the body (a sequence: the
\* reviews, or the one dict the handler returns).
Response(status, detail, body) ==
    [status |-> status, detail |-> detail, body |-> body]

\* get_review_service raises 503 when the store client is not available; the
\* header is parsed after it, and a ValueError becomes 400.
Rejected(detail400) ==
    IF ~database_available
    THEN Response(503, "Service not available - database connection failed",
                  <<>>)
    ELSE Response(400, detail400, <<>>)

\* The handler going on without asking whether the service is there.
AcceptsWithoutService(header) == IsUUID(header)

Accepts(header) == database_available /\ IsUUID(header)

\* GET /health: skipped by check_service_availability and answered whatever
\* the state of the service.
health_check ==
    Response(200, "",
             <<[status |-> "healthy",
                service |-> IF database_available THEN "healthy"
                            ELSE "unhealthy"]>>)

HealthCheck ==
    /\ health_check.status = 200
    /\ UNCHANGED vars

\* except Exception: raise HTTPException(status_code=500, ...)
InternalError == Response(500, "Internal server error", <<>>)

-----------------------------------------------------------------------------
(* POST /ingest                                                            *)

\* The text as the client sent it.
RawText(text) == text

\* review_data.text = redact_sensitive_info(review_data.text)
IngestedText(text) == redact_sensitive_info(text)

\* A task that is created and never started.
DroppedAnalysis(review) ==
    [review |-> review, pc |-> "dropped", prompt |-> NoPrompt]

\* asyncio.create_task(self._async_generate_ai_analysis(review)): the task
\* holds the review as the insert returned it and starts when the handler
\* has given up the event loop.
ScheduledAnalysis(review) ==
    [review |-> review, pc |-> "scheduled", prompt |-> NoPrompt]

\* create_review awaiting the analysis before it returns: the row carries
\* the heuristic's sentiment and nothing is left to run.
create_review_then_analyse(st, rec) ==
    LET review == [InsertedRow(st.reviews, rec) EXCEPT
                      !.sentiment = get_rating_based_sentiment(rec.rating)]
    IN  [reviews |-> Append(st.reviews, review),
         tasks |-> st.tasks,
         created |-> Append(st.created, review)]

\* create_review: insert the record, build the Review from the returned row,
\* schedule its analysis and return it without awaiting the task.
create_review(st, rec) ==
    LET review == InsertedRow(st.reviews, rec)
    IN  [reviews |-> Append(st.reviews, review),
         tasks |-> st.tasks \cup {ScheduledAnalysis(review)},
         created |-> Append(st.created, review)]

\* create_review with a task created for the record before the insert is
\* known to have worked.
create_review_rejected_late(st, rec) ==
    [reviews |-> st.reviews,
     tasks |-> st.tasks \cup {ScheduledAnalysis(InsertedRow(st.reviews, rec))},
     created |-> st.created]

\* create_review when the store rejects the insert: execute() raises and is
\* re-raised, or the response has no row and "Failed to create review" is
\* raised.  Either way the exception leaves before a Review is built or a
\* task created.
create_review_rejected(st, rec) == st

\* The loop of ingest_reviews from record k on.  A record of another session
\* ends the request with 400 and a failed insert (at record fail_at) with
\* 500; what the records before it did stays done.
RECURSIVE IngestLoop(_, _, _, _, _, _)
IngestLoop(batch, k, session, fail_at, st, raw) ==
    IF k > Len(batch)
    THEN [st |-> st, raw |-> raw, response |-> Response(200, "", st.created)]
    ELSE IF batch[k].session_id # session
    THEN [st |-> st, raw |-> raw,
          response |-> Response(400, "Session ID mismatch", <<>>)]
    ELSE IF fail_at = k
    THEN [st |-> create_review_rejected(
                    st, [batch[k] EXCEPT !.text = IngestedText(batch[k].text)]),
          raw |-> raw, response |-> InternalError]
    ELSE IngestLoop(batch, k + 1, session, fail_at,
                    create_review(st, [batch[k] EXCEPT
                                          !.text = IngestedText(batch[k].text)]),
                    Append(raw, batch[k].text))

\* ingest_reviews: the state it leaves and the response.
ingest_reviews(header, batch, fail_at) ==
    IF Accepts(header)
    THEN IngestLoop(batch, 1, header, fail_at,
                    [reviews |-> reviews, tasks |-> analysis_tasks,
                     created |-> <<>>],
                    submitted)
    ELSE [st |-> [reviews |-> reviews, tasks |-> analysis_tasks,
                  created |-> <<>>],
          raw |-> submitted,
          response |-> Rejected("Invalid session ID format")]

Ingest(header, batch, fail_at) ==
    /\ Len(reviews) + Len(batch) <= MaxReviews
    /\ fail_at <= Len(batch)
    /\ LET out == ingest_reviews(header, batch, fail_at)
       IN  /\ reviews' = out.st.reviews
           /\ analysis_tasks' = out.st.tasks
           /\ submitted' = out.raw
    /\ UNCHANGED <<service, reply_requests, background_tasks>>

-----------------------------------------------------------------------------
(* GET /reviews/{review_id}                                                *)

\* The lookup by id alone.
get_review_any_session(rows, review_id, session) ==
    LET data == Filter(rows, {r \in Rows(rows) : r.id = review_id})
    IN  IF Len(data) > 0 THEN <<data[1]>> ELSE <<>>

\* ReviewService.get_review: the first row of the query, if any.
get_review(rows, review_id, session) ==
    LET data == SelectReview(rows, review_id, session)
    IN  IF Len(data) > 0 THEN <<data[1]>> ELSE <<>>

\* if not review: raise HTTPException(status_code=404, ...)
ReviewFound(review) == review # <<>>

GetReviewResponse(header, review_id, db_ok) ==
    IF ~Accepts(header) THEN Rejected("Invalid ID format")
    ELSE IF ~db_ok THEN InternalError
    ELSE LET review == get_review(reviews, review_id, header)
         IN  IF ReviewFound(review) THEN Response(200, "", review)
             ELSE Response(404, "Review not found", <<>>)

GetReview(header, review_id, db_ok) ==
    /\ GetReviewResponse(header, review_id, db_ok).status \in {200, 400, 404, 500, 503}
    /\ UNCHANGED vars

-----------------------------------------------------------------------------
(* GET /reviews                                                            *)

Min(a, b) == IF a <= b THEN a ELSE b

\* The page count rounded down.
TotalPagesFloor(total, page_size) ==
    IF page_size > 0 THEN total \div page_size ELSE 0

\* ceil(total / page_size) as the code computes it
TotalPages(total, page_size) ==
    IF page_size > 0 THEN (total + page_size - 1) \div page_size ELSE 0

\* The filters of list_reviews that are set (a filter left out is NULL; the
\* topic "all" means no topic filter).  A null column equals no value.
ListFilter(rows, session, location, sentiment, topic) ==
    Filter(rows,
           {r \in Rows(rows) :
               /\ r.session_id = session
               /\ (location # NULL => r.location = location)
               /\ (sentiment # NULL => r.sentiment = sentiment)
               /\ ((topic # NULL /\ topic # "all") => r.topic = topic)})

\* list_reviews with an insert landing between its two queries: the count
\* misses the newest row that the page query sees.
list_reviews_stale_count(rows, session, location, sentiment, topic, page, page_size) ==
    LET found == ListFilter(rows, session, location, sentiment, topic)
        total == IF Len(found) > 0 THEN Len(found) - 1 ELSE 0
        offset == (page - 1) * page_size
    IN  [reviews |-> SubSeq(found, offset + 1, Min(offset + page_size, Len(found))),
         total |-> total, page |-> page, page_size |-> page_size,
         total_pages |-> TotalPages(total, page_size)]

\* list_reviews: the count query, then the same query with
\* range(offset, offset + page_size - 1).  Both execute() calls block the
\* event loop and no await stands between them, so no other handler or task
\* of the process runs in between: the two queries read the same table.
list_reviews(rows, session, location, sentiment, topic, page, page_size) ==
    LET found == ListFilter(rows, session, location, sentiment, topic)
        total == Len(found)
        offset == (page - 1) * page_size
    IN  [reviews |-> SubSeq(found, offset + 1, Min(offset + page_size, total)),
         total |-> total, page |-> page, page_size |-> page_size,
         total_pages |-> TotalPages(total, page_size)]

\* The list queries the model issues.
ListQueries ==
    {[location |-> NULL, sentiment |-> NULL, topic |-> NULL,
      page |-> 1, page_size |-> 10],
     [location |-> NULL, sentiment |-> "positive", topic |-> "all",
      page |-> 1, page_size |-> 1],
     [location |-> "Downtown", sentiment |-> NULL, topic |-> NULL,
      page |-> 2, page_size |-> 1]}

ListReviewsResponse(header, query, db_ok) ==
    IF ~Accepts(header) THEN Rejected("Invalid session ID format")
    ELSE IF ~db_ok THEN InternalError
    ELSE Response(200, "",
                  <<list_reviews(reviews, header, query.location,
                                 query.sentiment, query.topic,
                                 query.page, query.page_size)>>)

ListReviews(header, query, db_ok) ==
    /\ ListReviewsResponse(header, query, db_ok).status \in {200, 400, 500, 503}
    /\ UNCHANGED vars

-----------------------------------------------------------------------------
(* GET /search.  The cosine similarities are scikit-learn's; the model     *)
(* takes them as given, in thousandths, one per review of the session.     *)

\* similar_indices_scores[:5]
SEARCH_TOP == 5

\* score > 0.005, in thousandths
SIMILARITY_THRESHOLD == 5

ScoreValues == {SIMILARITY_THRESHOLD, SIMILARITY_THRESHOLD + 1}

\* The score vectors a search of the session can meet.
ScoresFor(header) == [1..Len(SelectSession(reviews, header)) -> ScoreValues]

\* A sort that puts the later of two equal scores first.
RankOfLastFirst(scores, i) ==
    1 + Cardinality({j \in DOMAIN scores :
                        \/ scores[j] > scores[i]
                        \/ (scores[j] = scores[i] /\ j > i)})

\* sorted(..., key=score, reverse=True): the place of index i.  The sort is
\* stable, so equal scores keep the retrieval order.
RankOf(scores, i) ==
    1 + Cardinality({j \in DOMAIN scores :
                        \/ scores[j] > scores[i]
                        \/ (scores[j] = scores[i] /\ j < i)})

SortedIndices(scores) ==
    [pos \in DOMAIN scores |->
        CHOOSE i \in DOMAIN scores : RankOf(scores, i) = pos]

\* search_reviews: the session's reviews ranked by score, the first five of
\* them, and of those the ones above the threshold.
search_reviews(rows, session, scores) ==
    LET found == SelectSession(rows, session)
        ranked == SortedIndices(scores)
        top == SubSeq(ranked, 1, Min(SEARCH_TOP, Len(ranked)))
        kept == Filter(top, {i \in DOMAIN scores :
                                scores[i] > SIMILARITY_THRESHOLD /\ i <= Len(found)})
    IN  IF found = <<>> THEN <<>>
        ELSE [k \in 1..Len(kept) |-> found[kept[k]]]

SearchReviewsResponse(header, scores, db_ok) ==
    IF ~Accepts(header) THEN Rejected("Invalid session ID format")
    ELSE IF ~db_ok THEN InternalError
    ELSE Response(200, "", search_reviews(reviews, header, scores))

SearchReviews(header, scores, db_ok) ==
    /\ SearchReviewsResponse(header, scores, db_ok).status \in {200, 400, 500, 503}
    /\ UNCHANGED vars

-----------------------------------------------------------------------------
(* GET /analytics                                                          *)

\* dict.get(key, default): the default only when the key is missing.  A row
\* of select("*") has every column, a null one as None.
DictGet(row, key, default) ==
    IF key \in DOMAIN row THEN row[key] ELSE default

\* The counts of the rows whose column is set only.
DistributionOfPresent(found, key) ==
    LET label(i) == DictGet(found[i], key, "unknown")
        present == {i \in 1..Len(found) : label(i) # NULL}
    IN  [l \in {label(i) : i \in present} |->
            Cardinality({i \in present : label(i) = l})]

\* The counts per value of a column, as a function on the values that occur.
Distribution(found, key) ==
    LET label(i) == DictGet(found[i], key, "unknown")
    IN  [l \in {label(i) : i \in 1..Len(found)} |->
            Cardinality({i \in 1..Len(found) : label(i) = l})]

get_analytics(rows, session) ==
    LET found == SelectSession(rows, session)
    IN  [sentiment_distribution |-> Distribution(found, "sentiment"),
         topic_distribution |-> Distribution(found, "topic")]

GetAnalyticsResponse(header, db_ok) ==
    IF ~Accepts(header) THEN Rejected("Invalid session ID format")
    ELSE IF ~db_ok THEN InternalError
    ELSE Response(200, "", <<get_analytics(reviews, header)>>)

GetAnalytics(header, db_ok) ==
    /\ GetAnalyticsResponse(header, db_ok).status \in {200, 400, 500, 503}
    /\ UNCHANGED vars

-----------------------------------------------------------------------------
(* POST /reviews/{review_id}/suggest-reply                                 *)

ModelReply == <<"(model reply)">>

get_template_based_reply(review) ==
    [reply |->
        IF review.rating >= 4
        THEN <<"Thank you for your positive feedback about our ",
               review.location,
               " location! We're thrilled to hear about your experience and look forward to serving you again soon.">>
        ELSE IF review.rating <= 2
        THEN <<"Thank you for bringing this to our attention regarding your experience at our ",
               review.location,
               " location. We apologize for any inconvenience and would like to make this right. A manager will reach out to you shortly to address your concerns.">>
        ELSE <<"Thank you for your feedback about our ",
               review.location,
               " location. We appreciate you taking the time to share your experience with us and will use this information to improve our services.">>,
     reasoning_log |-> "template"]

\* What generate_content can do for the reply prompt.
ReplyOutcomes == {"raise", "empty", "text"}

\* generate_ai_reply taking the text of any response, an empty one too.
generate_ai_reply_any_text(has_model, review, outcome) ==
    IF has_model /\ outcome = "text"
    THEN [reply |-> ModelReply, reasoning_log |-> "model"]
    ELSE IF has_model /\ outcome = "empty"
    THEN [reply |-> <<"">>, reasoning_log |-> "model"]
    ELSE get_template_based_reply(review)

\* generate_ai_reply: the template without a model, when the call raises and
\* when the response is empty; else the response's text.
generate_ai_reply(has_model, review, outcome) ==
    IF has_model /\ outcome = "text"
    THEN [reply |-> ModelReply, reasoning_log |-> "model"]
    ELSE get_template_based_reply(review)

\* The task given the reasoning log in place of the reply.
SaveReasoningTask(review_id, reply_data) ==
    [review_id |-> review_id, reply |-> <<reply_data.reasoning_log>>]

\* background_tasks.add_task(review_service.save_reply_to_db, review_id,
\* reply_data["reply"])
SaveReplyTask(review_id, reply_data) ==
    [review_id |-> review_id, reply |-> reply_data.reply]

\* The handler awaiting generate_content, with the prompt it sent and what
\* it reads of the review afterwards.
ReplyRequest(header, review_id, review) ==
    [review_id |-> review_id, session |-> header,
     review |-> [location |-> review.location, rating |-> review.rating],
     prompt |-> PromptText(review)]

Pending == Len(reply_requests) + Len(background_tasks)

\* The handler up to its first suspension: the lookup, then either the whole
\* of the rest (no model: the template, the scheduling, the response) or the
\* prompt sent to the model.  The handler writes nothing to the store.  The
\* status is 0 while the handler awaits.
suggest_reply(header, review_id, db_ok) ==
    LET review == get_review(reviews, review_id, header)
        same == [reviews |-> reviews, requests |-> reply_requests,
                 tasks |-> background_tasks]
    IN  IF ~Accepts(header)
        THEN same @@ [response |-> Rejected("Invalid ID format")]
        ELSE IF ~db_ok
        THEN same @@ [response |-> InternalError]
        ELSE IF ~ReviewFound(review)
        THEN same @@ [response |-> Response(404, "Review not found", <<>>)]
        ELSE IF gemini_model
        THEN [reviews |-> reviews,
              requests |-> Append(reply_requests,
                                  ReplyRequest(header, review_id, review[1])),
              tasks |-> background_tasks,
              response |-> Response(0, "awaiting the model", <<>>)]
        ELSE LET reply_data == generate_ai_reply(FALSE, review[1], "none")
             IN  [reviews |-> reviews,
                  requests |-> reply_requests,
                  tasks |-> Append(background_tasks,
                                   SaveReplyTask(review_id, reply_data)),
                  response |-> Response(200, "", <<reply_data>>)]

SuggestReply(header, review_id, db_ok) ==
    LET out == suggest_reply(header, review_id, db_ok)
    IN  /\ out.response.status \in {0, 200} => Pending < MaxPending
        /\ reviews' = out.reviews
        /\ reply_requests' = out.requests
        /\ background_tasks' = out.tasks
        /\ UNCHANGED <<service, submitted, analysis_tasks>>

\* s without its i-th element
Without(s, i) == SubSeq(s, 1, i - 1) \o SubSeq(s, i + 1, Len(s))

\* The model answers (or the call raises): the reply is fixed, its
\* persistence is scheduled and the response is returned.
suggest_reply_return(req, outcome) ==
    LET reply_data == generate_ai_reply(gemini_model, req.review, outcome)
    IN  [task |-> SaveReplyTask(req.review_id, reply_data),
         response |-> Response(200, "", <<reply_data>>)]

SuggestReplyReturn(i, outcome) ==
    /\ i \in 1..Len(reply_requests)
    /\ background_tasks' =
          Append(background_tasks,
                 suggest_reply_return(reply_requests[i], outcome).task)
    /\ reply_requests' = Without(reply_requests, i)
    /\ UNCHANGED <<service, reviews, submitted, analysis_tasks>>

\* save_reply_to_db, run after the response has been sent.
SaveReply(i, ok) ==
    /\ i \in 1..Len(background_tasks)
    /\ reviews' = UpdateColumn(reviews, background_tasks[i].review_id, "reply",
                               background_tasks[i].reply, ok)
    /\ task_exception' = (task_exception \/ TaskRaises(~ok))
    /\ background_tasks' = Without(background_tasks, i)
    /\ UNCHANGED <<database_available, gemini_model, submitted, analysis_tasks,
                   reply_requests, failed_updates>>

-----------------------------------------------------------------------------
(* The sentiment task of a created review.                                 *)

\* _async_generate_ai_analysis from the analysis on: the update of the
\* sentiment column when the analysis has tags, and the end of the task.
FinishAnalysis(t, ai_response, ok) ==
    /\ reviews' =
         IF AnalysisUpdates(ai_response)
         THEN UpdateColumn(reviews, t.review.id, "sentiment",
                           AnalysisSentiment(ai_response), ok)
         ELSE reviews
    /\ failed_updates' =
         IF AnalysisUpdates(ai_response) /\ ~ok
         THEN failed_updates \cup {t.review.id}
         ELSE failed_updates
    /\ task_exception' =
         (task_exception \/ TaskRaises(AnalysisUpdates(ai_response) /\ ~ok))
    /\ analysis_tasks' = analysis_tasks \ {t}
    /\ UNCHANGED <<database_available, gemini_model, submitted, reply_requests,
                   background_tasks>>

\* Without a model the task never suspends: it runs from start to end.
AnalysisRun(t, ok) ==
    /\ t \in analysis_tasks
    /\ t.pc = "scheduled"
    /\ ~gemini_model
    /\ FinishAnalysis(t, generate_ai_analysis(FALSE, t.review, NoCredential), ok)

\* With a model the task sends the prompt and awaits the executor.
AnalysisCall(t) ==
    /\ t \in analysis_tasks
    /\ t.pc = "scheduled"
    /\ gemini_model
    /\ analysis_tasks' =
          (analysis_tasks \ {t})
             \cup {[t EXCEPT !.pc = "awaiting", !.prompt = PromptText(t.review)]}
    /\ UNCHANGED <<service, reviews, submitted, reply_requests, background_tasks>>

AnalysisReturn(t, outcome, ok) ==
    /\ t \in analysis_tasks
    /\ t.pc = "awaiting"
    /\ FinishAnalysis(t, generate_ai_analysis(gemini_model, t.review, outcome), ok)

-----------------------------------------------------------------------------
(* The system.                                                             *)

\* The ReviewService that main.py imports from services.services: it records
\* whether its persistence client initialised.
ReviewService_database_available(client_ok) == client_ok

\* startup_event: the service is built once; the store client and the model
\* credential are each there or not.
Init ==
    /\ \E client_ok \in BOOLEAN :
          database_available = ReviewService_database_available(client_ok)
    /\ gemini_model \in BOOLEAN
    /\ reviews = <<>>
    /\ submitted = <<>>
    /\ analysis_tasks = {}
    /\ reply_requests = <<>>
    /\ background_tasks = <<>>
    /\ failed_updates = {}
    /\ task_exception = FALSE

ReviewIds == 1..MaxReviews

Next ==
    \/ \E h \in Headers, b \in Batches, f \in 0..MaxBatch : Ingest(h, b, f)
    \/ \E h \in Headers, id \in ReviewIds, ok \in BOOLEAN : GetReview(h, id, ok)
    \/ \E h \in Headers, q \in ListQueries, ok \in BOOLEAN : ListReviews(h, q, ok)
    \/ \E h \in Headers, ok \in BOOLEAN :
          \E sc \in ScoresFor(h) : SearchReviews(h, sc, ok)
    \/ \E h \in Headers, ok \in BOOLEAN : GetAnalytics(h, ok)
    \/ HealthCheck
    \/ \E h \in Headers, id \in ReviewIds, ok \in BOOLEAN : SuggestReply(h, id, ok)
    \/ \E i \in 1..MaxPending, o \in ReplyOutcomes : SuggestReplyReturn(i, o)
    \/ \E i \in 1..MaxPending, ok \in BOOLEAN : SaveReply(i, ok)
    \/ \E t \in analysis_tasks, ok \in BOOLEAN : AnalysisRun(t, ok)
    \/ \E t \in analysis_tasks : AnalysisCall(t)
    \/ \E t \in analysis_tasks, o \in AnalysisOutcomes, ok \in BOOLEAN :
          AnalysisReturn(t, o, ok)

Spec == Init /\ [][Next]_vars

\* The event loop runs every task that is ready, and the executor call of a
\* task that awaits the model returns.
LiveSpec ==
    /\ Spec
    /\ WF_vars(\E t \in analysis_tasks, ok \in BOOLEAN : AnalysisRun(t, ok))
    /\ WF_vars(\E t \in analysis_tasks : AnalysisCall(t))
    /\ WF_vars(\E t \in analysis_tasks, o \in AnalysisOutcomes, ok \in BOOLEAN :
                  AnalysisReturn(t, o, ok))

-----------------------------------------------------------------------------
(* The rating heuristic on its own: stores of reviews of every rating, as  *)
(* create_review leaves them, in a service without a model credential.     *)

HeuristicReviews ==
    {[session_id |-> "s1", location |-> "Downtown", rating |-> r,
      text |-> TextPlain, topic |-> NULL] : r \in Ratings}

RECURSIVE CreateAll(_, _)
CreateAll(st, recs) ==
    IF recs = <<>> THEN st
    ELSE CreateAll(create_review(st, Head(recs)), Tail(recs))

HeuristicInit ==
    \E recs \in UNION {[1..n -> HeuristicReviews] : n \in 1..MaxReviews} :
        LET st == CreateAll([reviews |-> <<>>, tasks |-> {}, created |-> <<>>],
                            recs)
        IN  /\ database_available = TRUE
            /\ gemini_model = FALSE
            /\ reviews = st.reviews
            /\ submitted = [i \in 1..Len(recs) |-> recs[i].text]
            /\ analysis_tasks = st.tasks
            /\ reply_requests = <<>>
            /\ background_tasks = <<>>
            /\ failed_updates = {}
            /\ task_exception = FALSE

HeuristicNext ==
    \E t \in analysis_tasks, ok \in BOOLEAN : AnalysisRun(t, ok)

HeuristicSpec == HeuristicInit /\ [][HeuristicNext]_vars

-----------------------------------------------------------------------------
(* Listing on its own: stores of up to MaxListed reviews as create_review  *)
(* leaves them, those of the other session standing at every stride-th     *)
(* place, and the list requests of both sessions.                          *)

MaxListed == 15

MaxStride == 9

ListedReview(i, stride) ==
    IF stride > 0 /\ i % stride = 0
    THEN [session_id |-> "s2", location |-> "Downtown", rating |-> 4,
          text |-> TextPlain, topic |-> NULL]
    ELSE [session_id |-> "s1",
          location |-> IF i % 2 = 0 THEN "Downtown" ELSE "Airport",
          rating |-> 3, text |-> TextPlain, topic |-> "service"]

PageQueries ==
    [location : {NULL, "Downtown"}, sentiment : {NULL}, topic : {NULL, "all"},
     page : 1..3, page_size : {1, 3, 10}]

PageInit ==
    \E k \in 0..MaxListed, stride \in 0..MaxStride :
        LET recs == [i \in 1..k |-> ListedReview(i, stride)]
            st == CreateAll([reviews |-> <<>>, tasks |-> {}, created |-> <<>>],
                            recs)
        IN  /\ database_available = TRUE
            /\ gemini_model = FALSE
            /\ reviews = st.reviews
            /\ submitted = [i \in 1..k |-> recs[i].text]
            /\ analysis_tasks = st.tasks
            /\ reply_requests = <<>>
            /\ background_tasks = <<>>
            /\ failed_updates = {}
            /\ task_exception = FALSE

PageNext ==
    \E h \in Headers, q \in PageQueries, ok \in BOOLEAN : ListReviews(h, q, ok)

PageSpec == PageInit /\ [][PageNext]_vars

-----------------------------------------------------------------------------
(* Searching on its own: stores of up to MaxSearched reviews of one rating *)
(* as create_review leaves them, those of the other session at every       *)
(* stride-th place, and searches with every vector of similarities at, just *)
(* above and further above the threshold.                                  *)

MaxSearched == 6

SearchScores ==
    {SIMILARITY_THRESHOLD, SIMILARITY_THRESHOLD + 1, SIMILARITY_THRESHOLD + 2}

SearchScoresFor(header) ==
    [1..Len(SelectSession(reviews, header)) -> SearchScores]

SearchInit ==
    \E k \in 0..MaxSearched, stride \in 0..MaxStride, r \in Ratings :
        LET recs == [i \in 1..k |-> [ListedReview(i, stride) EXCEPT !.rating = r]]
            st == CreateAll([reviews |-> <<>>, tasks |-> {}, created |-> <<>>],
                            recs)
        IN  /\ database_available = TRUE
            /\ gemini_model = FALSE
            /\ reviews = st.reviews
            /\ submitted = [i \in 1..k |-> recs[i].text]
            /\ analysis_tasks = st.tasks
            /\ reply_requests = <<>>
            /\ background_tasks = <<>>
            /\ failed_updates = {}
            /\ task_exception = FALSE

SearchNext ==
    \E h \in Headers, ok \in BOOLEAN :
        \E sc \in SearchScoresFor(h) : SearchReviews(h, sc, ok)

SearchSpec == SearchInit /\ [][SearchNext]_vars

-----------------------------------------------------------------------------
(* Replying on its own: stores of reviews of every rating, as              *)
(* create_review leaves them, with and without a model credential, and the *)
(* suggest-reply requests for them.                                        *)

ReplyInit ==
    \E recs \in UNION {[1..n -> HeuristicReviews] : n \in 1..MaxReviews} :
        LET st == CreateAll([reviews |-> <<>>, tasks |-> {}, created |-> <<>>],
                            recs)
        IN  /\ database_available = TRUE
            /\ gemini_model \in BOOLEAN
            /\ reviews = st.reviews
            /\ submitted = [i \in 1..Len(recs) |-> recs[i].text]
            /\ analysis_tasks = st.tasks
            /\ reply_requests = <<>>
            /\ background_tasks = <<>>
            /\ failed_updates = {}
            /\ task_exception = FALSE

ReplyNext ==
    \/ \E h \in Headers, id \in ReviewIds, ok \in BOOLEAN : SuggestReply(h, id, ok)
    \/ \E i \in 1..MaxPending, o \in ReplyOutcomes : SuggestReplyReturn(i, o)
    \/ \E i \in 1..MaxPending, ok \in BOOLEAN : SaveReply(i, ok)

ReplySpec == ReplyInit /\ [][ReplyNext]_vars

-----------------------------------------------------------------------------
(* The timestamp parser.  A raw value is a datetime, a null or a string;   *)
(* of a string the model keeps what the parser asks of it: whether         *)
(* datetime.fromisoformat takes it with "Z" replaced by "+00:00", whether  *)
(* it holds both "." and "+", whether fromisoformat takes it with the      *)
(* fraction brought to six digits, whether dateutil's isoparse takes it,   *)
(* and whether fromisoformat takes it with "Z" removed.                    *)

RawDates ==
    {d \in [kind : {"datetime", "string", "null"}, direct_ok : BOOLEAN,
            dot_and_plus : BOOLEAN, repair_ok : BOOLEAN, isoparse_ok : BOOLEAN,
            without_z_ok : BOOLEAN] :
        d.kind # "string"
           => ~(d.direct_ok \/ d.dot_and_plus \/ d.repair_ok
                   \/ d.isoparse_ok \/ d.without_z_ok)}

\* What a call ends with: an exception, or a timestamp and the rung it came
\* from.
Raised == [raised |-> TRUE, rung |-> "none"]

Parsed(rung) == [raised |-> FALSE, rung |-> rung]

\* _parse_datetime.  A null has no replace(): the AttributeError is not a
\* ValueError and leaves the function.
parse_datetime(raw) ==
    IF raw.kind = "datetime" THEN Parsed("given")
    ELSE IF raw.kind = "null" THEN Raised
    ELSE IF raw.direct_ok THEN Parsed("direct")
    ELSE IF raw.dot_and_plus /\ raw.repair_ok THEN Parsed("repair")
    ELSE IF ~raw.dot_and_plus /\ raw.isoparse_ok THEN Parsed("general")
    ELSE IF raw.without_z_ok THEN Parsed("without_z")
    ELSE Parsed("now")

\* The loop of get_analytics over the rows of the session: a row whose date
\* does not parse is left out.
ParsedRows(rows) ==
    Filter(rows, {r \in Rows(rows) : ~parse_datetime(r.date).raised})

ReadDates(header) ==
    /\ Accepts(header)
    /\ Len(ParsedRows(SelectSession(reviews, header))) <= Len(reviews)
    /\ UNCHANGED vars

\* Stores of one or two rows, as create_review leaves them, with every raw
\* value as the date column.
ParseInit ==
    \E dates \in UNION {[1..n -> RawDates] : n \in 1..MaxReviews} :
        LET recs == [i \in 1..Len(dates) |->
                        CHOOSE r \in HeuristicReviews : r.rating = 3]
            st == CreateAll([reviews |-> <<>>, tasks |-> {}, created |-> <<>>],
                            recs)
        IN  /\ database_available = TRUE
            /\ gemini_model = FALSE
            /\ reviews = [i \in 1..Len(dates) |->
                             st.reviews[i] @@ [date |-> dates[i]]]
            /\ submitted = [i \in 1..Len(recs) |-> recs[i].text]
            /\ analysis_tasks = st.tasks
            /\ reply_requests = <<>>
            /\ background_tasks = <<>>
            /\ failed_updates = {}
            /\ task_exception = FALSE

ParseNext == \E h \in Headers : ReadDates(h)

ParseSpec == ParseInit /\ [][ParseNext]_vars

-----------------------------------------------------------------------------
(* Redaction of phone numbers on its own: ingests of one review whose text *)
(* is a phone number of one of the four shapes at the start of the text,   *)
(* after a space or after a letter, or a run of more than ten digits.      *)

PhoneNumbers ==
    {<<"5", "5", "5", "-", "1", "2", "3", "-", "4", "5", "6", "7">>,
     <<"5", "5", "5", ".", "1", "2", "3", ".", "4", "5", "6", "7">>,
     <<"(", "5", "5", "5", ")", " ", "1", "2", "3", "-", "4", "5", "6", "7">>,
     <<"5", "5", "5", "1", "2", "3", "4", "5", "6", "7">>}

PhonePrefixes == {<<>>, <<"a", " ">>, <<"a">>}

LongDigitRuns ==
    {<<"5", "5", "5", "1", "2", "3", "4", "5", "6", "7", "8">>,
     <<"5", "5", "5", "1", "2", "3", "4", "5", "6", "7", "8", "9">>}

PhoneReviews ==
    {[session_id |-> "s1", location |-> "Downtown", rating |-> 3,
      text |-> t, topic |-> NULL] :
        t \in {pre \o n : pre \in PhonePrefixes, n \in PhoneNumbers}
                 \cup LongDigitRuns}

RedactInit ==
    /\ database_available = TRUE
    /\ gemini_model = FALSE
    /\ reviews = <<>>
    /\ submitted = <<>>
    /\ analysis_tasks = {}
    /\ reply_requests = <<>>
    /\ background_tasks = <<>>
    /\ failed_updates = {}
    /\ task_exception = FALSE

RedactNext == \E rec \in PhoneReviews : Ingest(rec.session_id, <<rec>>, 0)

RedactSpec == RedactInit /\ [][RedactNext]_vars

-----------------------------------------------------------------------------
(* Properties.                                                             *)

\* C1: session isolation.  In every reachable state, for every session S,
\* what get, list, search and analytics answer for S holds and counts only
\* rows whose session_id is S, and get answers "not found" for the id of a
\* row of another session.
SessionIsolation ==
    \A h \in Sessions :
        LET in_session == {i \in 1..Len(reviews) : reviews[i].session_id = h}
            analytics == GetAnalyticsResponse(h, TRUE)
        IN  /\ \A id \in ReviewIds :
                  LET got == GetReviewResponse(h, id, TRUE)
                  IN  /\ \A k \in 1..Len(got.body) : got.body[k].session_id = h
                      /\ (\E i \in 1..Len(reviews) :
                              reviews[i].id = id /\ reviews[i].session_id # h)
                            => (got.status # 200 /\ got.body = <<>>)
            /\ \A q \in ListQueries :
                  LET listed == ListReviewsResponse(h, q, TRUE)
                  IN  \A k \in 1..Len(listed.body) :
                          /\ \A n \in 1..Len(listed.body[k].reviews) :
                                listed.body[k].reviews[n].session_id = h
                          /\ listed.body[k].total <= Cardinality(in_session)
            /\ \A sc \in ScoresFor(h) :
                  LET found == SearchReviewsResponse(h, sc, TRUE)
                  IN  \A k \in 1..Len(found.body) : found.body[k].session_id = h
            /\ \A k \in 1..Len(analytics.body) :
                  LET dist == analytics.body[k].sentiment_distribution
                  IN  \A l \in DOMAIN dist :
                          dist[l] = Cardinality({i \in in_session :
                                                    reviews[i].sentiment = l})

\* Both sessions hold a review, one of them already classified; its own
\* session gets it and lists it alone, the other session does not get it.
SessionIsolationWitness ==
    \E i, j \in 1..Len(reviews) :
        /\ reviews[i].session_id = "s1"
        /\ reviews[j].session_id = "s2"
        /\ reviews[i].sentiment # NULL
        /\ GetReviewResponse("s1", reviews[i].id, TRUE).status = 200
        /\ GetReviewResponse("s2", reviews[i].id, TRUE).status = 404
        /\ ListReviewsResponse("s1", [location |-> NULL, sentiment |-> NULL,
                                      topic |-> NULL, page |-> 1,
                                      page_size |-> 10], TRUE).body[1].total = 1

\* C2: a step of ingest that ends with "Session ID mismatch" leaves the
\* reviews table as it was and schedules no sentiment task, wherever in the
\* batch the record of the other session stands.
RejectedIngestWritesNothing ==
    [][\A h \in Sessions, b \in Batches :
          (/\ ingest_reviews(h, b, 0).response.detail = "Session ID mismatch"
           /\ Ingest(h, b, 0))
             => UNCHANGED <<reviews, analysis_tasks>>]_vars

\* C3: redaction precedes every use of the text.  Every stored text is
\* redact_sensitive_info of the text the client sent for that row, and so is
\* the text of every prompt sent to the model, for the sentiment and for
\* the reply.
RedactionPrecedesUse ==
    /\ Len(submitted) = Len(reviews)
    /\ \A i \in 1..Len(reviews) :
          /\ reviews[i].id = i
          /\ reviews[i].text = redact_sensitive_info(submitted[i])
    /\ \A t \in analysis_tasks :
          t.pc = "awaiting"
             => t.prompt = redact_sensitive_info(submitted[t.review.id])
    /\ \A k \in 1..Len(reply_requests) :
          reply_requests[k].prompt =
             redact_sensitive_info(submitted[reply_requests[k].review_id])

\* A review whose text held an e-mail address is stored, and a sentiment
\* prompt and a reply prompt for it are with the model, none with the
\* address.
RedactionPrecedesUseWitness ==
    \E t \in analysis_tasks, k \in 1..Len(reply_requests) :
        /\ t.pc = "awaiting"
        /\ submitted[t.review.id] = TextEmail
        /\ reviews[t.review.id].text # TextEmail
        /\ t.prompt = reviews[t.review.id].text
        /\ reply_requests[k].review_id = t.review.id
        /\ reply_requests[k].prompt # TextEmail

\* C4: in every reachable state the sentiment of every stored review is
\* absent or one of positive, neutral, negative.
StoredSentimentIsLabel ==
    \A i \in 1..Len(reviews) : reviews[i].sentiment \in Labels \cup {NULL}

\* C5: in each failure case (no credential, the call raises, an empty
\* response, a response that is not JSON, JSON without tags or without a
\* sentiment in them) generate_ai_analysis returns the rating heuristic's
\* result for the review.
ClassifyFallsBack ==
    \A t \in analysis_tasks :
        /\ (t.pc = "scheduled" /\ ~gemini_model)
              => generate_ai_analysis(gemini_model, t.review, NoCredential)
                    = get_rating_based_analysis(t.review)
        /\ t.pc = "awaiting"
              => \A o \in AnalysisOutcomes :
                    (\/ o.kind \in {"raise", "empty", "not_json"}
                     \/ ~o.value.has_tags
                     \/ ~o.value.has_sentiment)
                       => generate_ai_analysis(gemini_model, t.review, o)
                             = get_rating_based_analysis(t.review)

\* C6: the rating heuristic gives positive exactly for the ratings 4 and 5,
\* negative exactly for 1 and 2 and neutral exactly for 3; and the sentiment
\* a task without a model has stored for a review is that of its rating.
RatingHeuristic ==
    /\ \A r \in Ratings :
          /\ get_rating_based_sentiment(r) = "positive" <=> r >= 4
          /\ get_rating_based_sentiment(r) = "negative" <=> r <= 2
          /\ get_rating_based_sentiment(r) = "neutral" <=> r = 3
    /\ \A i \in 1..Len(reviews) :
          reviews[i].sentiment # NULL
             => /\ reviews[i].sentiment = "positive" <=> reviews[i].rating >= 4
                /\ reviews[i].sentiment = "negative" <=> reviews[i].rating <= 2
                /\ reviews[i].sentiment = "neutral" <=> reviews[i].rating = 3

\* The two boundary ratings, classified.
RatingHeuristicWitness ==
    \E i, j \in 1..Len(reviews) :
        /\ reviews[i].rating = 4 /\ reviews[i].sentiment = "positive"
        /\ reviews[j].rating = 2 /\ reviews[j].sentiment = "negative"
        /\ analysis_tasks = {}

\* C7, as stated: once a review of rating 5 is stored, a get of it in its
\* session eventually shows the sentiment "positive".
EventualSentimentPositive ==
    \A id \in ReviewIds :
        (Len(reviews) >= id /\ reviews[id].rating = 5)
           ~> (\E h \in Sessions :
                  LET got == GetReviewResponse(h, id, TRUE)
                  IN  got.status = 200 /\ got.body[1].sentiment = "positive")

\* C7, amended: in a service without a model credential, once a review of
\* rating 5 is stored, eventually a get of it in its session shows the
\* sentiment "positive" or the store has refused the task's update.
EventualSentimentWithoutModel ==
    \A id \in ReviewIds :
        (~gemini_model /\ Len(reviews) >= id /\ reviews[id].rating = 5)
           ~> (\/ \E h \in Sessions :
                     LET got == GetReviewResponse(h, id, TRUE)
                     IN  got.status = 200 /\ got.body[1].sentiment = "positive"
               \/ id \in failed_updates)

\* Without a model, the task of a rating-5 review has ended and the review
\* reads back as positive.
EventualSentimentWitness ==
    /\ ~gemini_model
    /\ \E id \in ReviewIds :
          /\ Len(reviews) >= id
          /\ reviews[id].rating = 5
          /\ \A t \in analysis_tasks : t.review.id # id
          /\ id \notin failed_updates
          /\ GetReviewResponse(reviews[id].session_id, id, TRUE).body[1].sentiment
                = "positive"

\* C8: ingest does not wait for the sentiment.  In every reachable state,
\* every review an accepted ingest returns has sentiment and reply absent,
\* reads back from the store ingest leaves exactly so, and its sentiment
\* task is still only scheduled.
IngestDoesNotWait ==
    \A h \in Sessions, b \in Batches :
        LET out == ingest_reviews(h, b, 0)
            body == out.response.body
        IN  (Len(reviews) + Len(b) <= MaxReviews /\ out.response.status = 200)
               => /\ Len(body) = Len(b)
                  /\ \A k \in 1..Len(body) :
                        /\ body[k].sentiment = NULL
                        /\ body[k].reply = NoReply
                        /\ get_review(out.st.reviews, body[k].id, h) = <<body[k]>>
                        /\ ScheduledAnalysis(body[k]) \in out.st.tasks

\* An ingested review whose task has not started reads back with sentiment
\* and reply absent.
IngestDoesNotWaitWitness ==
    \E t \in analysis_tasks :
        LET got == GetReviewResponse(t.review.session_id, t.review.id, TRUE)
        IN  /\ t.pc = "scheduled"
            /\ got.status = 200
            /\ got.body[1].sentiment = NULL
            /\ got.body[1].reply = NoReply

\* C9: background failures are swallowed.  A step of save_reply_to_db or of
\* the sentiment task whose store update fails leaves every review as it
\* was, and no exception leaves the task.
BackgroundFailuresSwallowed ==
    [][/\ \A i \in 1..Len(background_tasks) :
             SaveReply(i, FALSE) => (UNCHANGED reviews /\ ~task_exception')
       /\ \A t \in analysis_tasks :
             (\/ AnalysisRun(t, FALSE)
              \/ \E o \in AnalysisOutcomes : AnalysisReturn(t, o, FALSE))
                => (UNCHANGED reviews /\ ~task_exception')]_vars

\* A sentiment update has failed: the review still has no sentiment, and no
\* exception has left a task.
BackgroundFailuresSwallowedWitness ==
    \E id \in failed_updates :
        /\ reviews[id].sentiment = NULL
        /\ \A t \in analysis_tasks : t.review.id # id
        /\ ~task_exception

\* C10: in every reachable state, suggest-reply for an id that no row of the
\* session has (no such id, or a row of another session) answers 404, sends
\* no prompt to the model, schedules no save_reply_to_db and leaves the
\* reviews as they are.
SuggestReplyNotFound ==
    \A h \in Sessions, id \in ReviewIds :
        (/\ database_available
         /\ ~\E i \in 1..Len(reviews) :
                reviews[i].id = id /\ reviews[i].session_id = h)
           => LET out == suggest_reply(h, id, TRUE)
              IN  /\ out.response.status = 404
                  /\ out.response.body = <<>>
                  /\ out.requests = reply_requests
                  /\ out.tasks = background_tasks
                  /\ out.reviews = reviews

\* The store holds a review of one session and the other session asks for a
\* reply to it, and a reply to an id that is not there, with nothing
\* pending.
SuggestReplyNotFoundWitness ==
    \E i \in 1..Len(reviews), h \in Sessions, id \in ReviewIds :
        /\ reviews[i].session_id # h
        /\ id > Len(reviews)
        /\ suggest_reply(h, reviews[i].id, TRUE).response.status = 404
        /\ suggest_reply(h, id, TRUE).response.status = 404
        /\ Pending = 0

\* C11: each review is mutated after its insert at most once by the
\* sentiment update and at most once by the reply update: in every step, a
\* sentiment that is set stays as it is and a reply that is set stays as it
\* is.
MutatedAtMostOnce ==
    [][\A i \in 1..Len(reviews) :
          /\ reviews[i].sentiment # NULL
                => reviews'[i].sentiment = reviews[i].sentiment
          /\ reviews[i].reply # NoReply
                => reviews'[i].reply = reviews[i].reply]_vars

\* C12: in every reachable state, an ingest whose k-th insert the store
\* rejects answers with an error and returns no review, and leaves the store
\* and the sentiment tasks exactly as the records before the k-th made them:
\* no row and no task for the k-th record.
RejectedInsertLeavesNothing ==
    \A h \in Sessions, b \in Batches, k \in 1..MaxBatch :
        (/\ database_available
         /\ k <= Len(b)
         /\ Len(reviews) + Len(b) <= MaxReviews
         /\ \A j \in 1..k : b[j].session_id = h)
           => LET out == ingest_reviews(h, b, k)
                  before == ingest_reviews(h, SubSeq(b, 1, k - 1), 0)
              IN  /\ out.response.status = 500
                  /\ out.response.body = <<>>
                  /\ out.st.reviews = before.st.reviews
                  /\ out.st.tasks = before.st.tasks
                  /\ Len(out.st.reviews) = Len(reviews) + k - 1
                  /\ \A t \in out.st.tasks : t.review.id <= Len(out.st.reviews)

\* The store holds a review and its task, and an ingest of one more record
\* whose insert is rejected ends with 500 and leaves both as they are.
RejectedInsertLeavesNothingWitness ==
    /\ Len(reviews) = 1
    /\ Cardinality(analysis_tasks) = 1
    /\ \E h \in Sessions, b \in Batches :
          /\ Len(b) = 1
          /\ ingest_reviews(h, b, 1).response = InternalError
          /\ ingest_reviews(h, b, 1).st.reviews = reviews
          /\ ingest_reviews(h, b, 1).st.tasks = analysis_tasks

\* C13: in every reachable state of a service that came up, a get, a list
\* or an ingest whose store call fails answers with the service-unavailable
\* status, and not with that of "not found" or of a validation error.
BackendFailureIsUnavailable ==
    \A h \in Sessions :
        (database_available /\ reviews # <<>>)
           => /\ \A id \in ReviewIds :
                    /\ GetReviewResponse(h, id, FALSE).status = 503
                    /\ GetReviewResponse(h, id, FALSE).status \notin {400, 404}
              /\ \A q \in ListQueries :
                    /\ ListReviewsResponse(h, q, FALSE).status = 503
                    /\ ListReviewsResponse(h, q, FALSE).status \notin {400, 404}
              /\ \A b \in Batches :
                    (Len(b) >= 1 /\ b[1].session_id = h)
                       => /\ ingest_reviews(h, b, 1).response.status = 503
                          /\ ingest_reviews(h, b, 1).response.status
                                \notin {400, 404}

\* C14: in every reachable state, when the persistence client did not
\* initialise, ingest, list, get, suggest-reply, analytics and search answer
\* 503 whatever the store would do, nothing is written or scheduled, the
\* store holds nothing, and /health answers 200; and when it initialised,
\* none of them answers 503 and /health answers 200.
UnavailableWithoutClient ==
    LET statuses(db_ok) ==
           {GetReviewResponse(h, id, db_ok).status :
               h \in Headers, id \in ReviewIds}
           \cup {ListReviewsResponse(h, q, db_ok).status :
                    h \in Headers, q \in ListQueries}
           \cup {GetAnalyticsResponse(h, db_ok).status : h \in Headers}
           \cup UNION {{SearchReviewsResponse(h, sc, db_ok).status :
                           sc \in ScoresFor(h)} : h \in Headers}
           \cup {suggest_reply(h, id, db_ok).response.status :
                    h \in Headers, id \in ReviewIds}
        ingests ==
           {ingest_reviews(h, b, f) :
               h \in Headers, b \in Batches, f \in 0..1}
    IN  /\ health_check.status = 200
        /\ ~database_available
              => /\ statuses(TRUE) = {503}
                 /\ statuses(FALSE) = {503}
                 /\ \A out \in ingests :
                       /\ out.response.status = 503
                       /\ out.st.reviews = reviews
                       /\ out.st.tasks = analysis_tasks
                 /\ \A h \in Headers, id \in ReviewIds :
                       /\ suggest_reply(h, id, TRUE).requests = reply_requests
                       /\ suggest_reply(h, id, TRUE).tasks = background_tasks
                 /\ reviews = <<>>
                 /\ analysis_tasks = {}
                 /\ Pending = 0
        /\ database_available
              => /\ 503 \notin statuses(TRUE) \cup statuses(FALSE)
                 /\ \A h \in Headers, b \in Batches, f \in 0..1 :
                       Len(reviews) + Len(b) <= MaxReviews
                          => ingest_reviews(h, b, f).response.status # 503

\* The service came up without its persistence client: an ingest and a get
\* are answered 503 and /health 200, reporting the service unhealthy.
UnavailableWithoutClientWitness ==
    /\ ~database_available
    /\ \E b \in Batches :
          /\ Len(b) = 1
          /\ ingest_reviews("s1", b, 0).response.status = 503
    /\ GetReviewResponse("s1", 1, TRUE).status = 503
    /\ health_check.status = 200
    /\ health_check.body[1].service = "unhealthy"

\* C15: list pagination.  For every session and every list request with
\* page p >= 1 and page_size n >= 1, with F the rows of the session that pass
\* the filters, in store order: the reviews returned are those of F at the
\* 0-based positions (p-1)*n .. p*n-1 that exist, total is |F| and
\* total_pages is the least t with t*n >= |F|.
ListPagination ==
    \A h \in Sessions, q \in PageQueries :
        LET F == {i \in 1..Len(reviews) :
                     /\ reviews[i].session_id = h
                     /\ q.location # NULL => reviews[i].location = q.location}
            nth(k) == CHOOSE i \in F : Cardinality({j \in F : j < i}) = k - 1
            first == (q.page - 1) * q.page_size
            count == IF Cardinality(F) - first >= q.page_size THEN q.page_size
                     ELSE IF Cardinality(F) - first > 0
                     THEN Cardinality(F) - first
                     ELSE 0
            listed == ListReviewsResponse(h, q, TRUE)
        IN  /\ listed.status = 200
            /\ listed.body[1].total = Cardinality(F)
            /\ listed.body[1].total_pages * q.page_size >= Cardinality(F)
            /\ (listed.body[1].total_pages - 1) * q.page_size < Cardinality(F)
            /\ listed.body[1].total_pages >= 0
            /\ listed.body[1].reviews
                  = [j \in 1..count |-> reviews[nth(first + j)]]

\* Fifteen reviews of one session: page 2 of size 10 has the last 5 of them,
\* of a total of 15 on 2 pages.
ListPaginationWitness ==
    LET listed == ListReviewsResponse("s1", [location |-> NULL, sentiment |-> NULL,
                                             topic |-> NULL, page |-> 2,
                                             page_size |-> 10], TRUE)
    IN  /\ listed.status = 200
        /\ Len(listed.body[1].reviews) = 5
        /\ listed.body[1].total = 15
        /\ listed.body[1].total_pages = 2
        /\ listed.body[1].reviews[1].id = 11

\* C16: search.  For every session and every vector of similarities of its
\* reviews (in retrieval order): at most 5 reviews are returned, each with a
\* similarity above the threshold, in non-increasing similarity with equal
\* ones in retrieval order; a review is returned exactly when its similarity
\* is above the threshold and fewer than 5 reviews stand before it in the
\* stable descending order; and a session without reviews gets none.
SearchTopFive ==
    \A h \in Sessions :
        LET F == {i \in 1..Len(reviews) : reviews[i].session_id = h}
            nth(k) == CHOOSE i \in F : Cardinality({j \in F : j < i}) = k - 1
            n == Cardinality(F)
        IN  \A sc \in SearchScoresFor(h) :
                LET found == SearchReviewsResponse(h, sc, TRUE)
                    res == found.body
                    \* the retrieval position of the k-th result
                    pos(k) == CHOOSE i \in 1..n : reviews[nth(i)] = res[k]
                    ahead(i) == {j \in 1..n : \/ sc[j] > sc[i]
                                              \/ (sc[j] = sc[i] /\ j < i)}
                IN  /\ found.status = 200
                    /\ n = Len(sc)
                    /\ Len(res) <= 5
                    /\ n = 0 => res = <<>>
                    /\ \A k \in 1..Len(res) :
                          /\ \E i \in 1..n : reviews[nth(i)] = res[k]
                          /\ sc[pos(k)] > SIMILARITY_THRESHOLD
                    /\ \A k, l \in 1..Len(res) :
                          k < l => \/ sc[pos(k)] > sc[pos(l)]
                                   \/ (sc[pos(k)] = sc[pos(l)] /\ pos(k) < pos(l))
                    /\ \A i \in 1..n :
                          (\E k \in 1..Len(res) : res[k] = reviews[nth(i)])
                             <=> (/\ sc[i] > SIMILARITY_THRESHOLD
                                  /\ Cardinality(ahead(i)) < 5)

\* Six reviews of the session, all above the threshold, the first two with
\* the lowest similarity: the five returned leave out the second, and the
\* first comes last.
SearchTopFiveWitness ==
    /\ Len(SelectSession(reviews, "s1")) = 6
    /\ LET sc == [i \in 1..6 |-> IF i <= 2 THEN SIMILARITY_THRESHOLD + 1
                                  ELSE SIMILARITY_THRESHOLD + 2]
           res == SearchReviewsResponse("s1", sc, TRUE).body
       IN  /\ Len(res) = 5
           /\ res[5] = SelectSession(reviews, "s1")[1]
           /\ \A k \in 1..5 : res[k] # SelectSession(reviews, "s1")[2]

\* C17: analytics conservation.  In every reachable state and for every
\* session, the counts of the sentiment distribution add up to the number
\* of reviews stored for the session, and so do those of the topic
\* distribution.
AnalyticsConservation ==
    \A h \in Sessions :
        LET RECURSIVE Total(_, _)
            Total(dist, labels) ==
                IF labels = {} THEN 0
                ELSE LET l == CHOOSE x \in labels : TRUE
                     IN  dist[l] + Total(dist, labels \ {l})
            stored == Cardinality({i \in 1..Len(reviews) :
                                      reviews[i].session_id = h})
            analytics == GetAnalyticsResponse(h, TRUE)
        IN  database_available
               => /\ analytics.status = 200
                  /\ LET sentiments == analytics.body[1].sentiment_distribution
                         topics == analytics.body[1].topic_distribution
                     IN  /\ Total(sentiments, DOMAIN sentiments) = stored
                         /\ Total(topics, DOMAIN topics) = stored
                         /\ \A l \in DOMAIN sentiments : sentiments[l] >= 1
                         /\ \A l \in DOMAIN topics : topics[l] >= 1

\* A session with two reviews, one classified and one not yet, one with a
\* topic and one without: each distribution has two buckets of one.
AnalyticsConservationWitness ==
    LET analytics == GetAnalyticsResponse("s1", TRUE).body
    IN  /\ Len(SelectSession(reviews, "s1")) = 2
        /\ Len(reviews) = 2
        /\ reviews[1].sentiment # NULL
        /\ reviews[2].sentiment = NULL
        /\ Cardinality(DOMAIN analytics[1].sentiment_distribution) = 2
        /\ Cardinality(DOMAIN analytics[1].topic_distribution) = 2

\* C18: in every reachable state and for every session, the reviews without
\* a sentiment are counted under "unknown" in the sentiment distribution and
\* those without a topic under "unknown" in the topic distribution.
AbsentCountsAsUnknown ==
    \A h \in Sessions :
        LET analytics == GetAnalyticsResponse(h, TRUE)
            absent(key) == Cardinality({i \in 1..Len(reviews) :
                                           /\ reviews[i].session_id = h
                                           /\ reviews[i][key] = NULL})
            unknown(dist) == IF "unknown" \in DOMAIN dist THEN dist["unknown"]
                             ELSE 0
        IN  database_available
               => /\ unknown(analytics.body[1].sentiment_distribution)
                        = absent("sentiment")
                  /\ unknown(analytics.body[1].topic_distribution)
                        = absent("topic")

\* C19: the reply.  Without a model credential, when the model call raises
\* and when the model answers nothing, the reply is the template of the
\* review's rating (thanks and return visit for 4 and 5, apology and manager
\* follow-up for 1 and 2, appreciation for 3) around the review's location;
\* when the model answers with text the reply is that text; the request is
\* answered 200 in each case, and the reply scheduled for saving is the one
\* returned.
ReplyFallsBackToTemplate ==
    LET opening(rating) ==
           IF rating >= 4
           THEN "Thank you for your positive feedback about our "
           ELSE IF rating <= 2
           THEN "Thank you for bringing this to our attention regarding your experience at our "
           ELSE "Thank you for your feedback about our "
        templated(reply, review) ==
           /\ Len(reply) = 3
           /\ reply[1] = opening(review.rating)
           /\ reply[2] = review.location
    IN  /\ \A k \in 1..Len(reply_requests), o \in ReplyOutcomes :
              LET req == reply_requests[k]
                  out == suggest_reply_return(req, o)
                  reply == out.response.body[1].reply
              IN  /\ out.response.status = 200
                  /\ out.task = [review_id |-> req.review_id, reply |-> reply]
                  /\ o = "text" => reply = ModelReply
                  /\ o # "text" => templated(reply, reviews[req.review_id])
        /\ ~gemini_model
              => \A i \in 1..Len(reviews) :
                    LET out == suggest_reply(reviews[i].session_id,
                                             reviews[i].id, TRUE)
                    IN  /\ out.response.status = 200
                        /\ templated(out.response.body[1].reply, reviews[i])
        /\ \A k \in 1..Len(background_tasks) :
              \/ background_tasks[k].reply = ModelReply /\ gemini_model
              \/ templated(background_tasks[k].reply,
                           reviews[background_tasks[k].review_id])
        /\ \A i \in 1..Len(reviews) :
              \/ reviews[i].reply = NoReply
              \/ reviews[i].reply = ModelReply /\ gemini_model
              \/ templated(reviews[i].reply, reviews[i])

\* With a model credential, a review of rating 4 has the thanking template
\* for the Downtown location as its saved reply (the model had failed), and
\* a request for a reply to a review of rating 2 is awaiting the model.
ReplyFallsBackToTemplateWitness ==
    /\ gemini_model
    /\ \E i \in 1..Len(reviews), k \in 1..Len(reply_requests) :
          /\ reviews[i].rating = 4
          /\ Len(reviews[i].reply) = 3
          /\ reviews[i].reply[1] = "Thank you for your positive feedback about our "
          /\ reviews[i].reply[2] = "Downtown"
          /\ reviews[reply_requests[k].review_id].rating = 2

\* C20: the timestamp parser never raises.  For the date of every stored
\* row (a datetime, a string of any kind, or a null) it returns a timestamp;
\* the timestamp is that of the first rung that takes the value, in the
\* order direct parse, fraction repair, general parse, parse without "Z";
\* and it is the current time only when each of those rungs fails.
ParserNeverRaises ==
    \A i \in 1..Len(reviews) :
        LET raw == reviews[i].date
            out == parse_datetime(raw)
        IN  /\ ~out.raised
            /\ out.rung \in {"given", "direct", "repair", "general",
                             "without_z", "now"}
            /\ raw.kind = "string"
                  => /\ raw.direct_ok => out.rung = "direct"
                     /\ (~raw.direct_ok /\ raw.dot_and_plus /\ raw.repair_ok)
                           => out.rung = "repair"
                     /\ out.rung = "now"
                           => /\ ~raw.direct_ok
                              /\ ~(raw.dot_and_plus /\ raw.repair_ok)
                              /\ ~raw.isoparse_ok
                              /\ ~raw.without_z_ok

\* C21: redaction replaces every occurrence of each of the four phone
\* shapes with the phone placeholder wherever it sits (at the start of the
\* text, after a space, after a letter) and leaves alone a run of more than
\* ten digits: a stored text is what the client sent with the number
\* replaced, and a long digit run is stored as sent.
PhoneShapesRedacted ==
    \A i \in 1..Len(reviews) :
        /\ \A pre \in PhonePrefixes, n \in PhoneNumbers :
               submitted[i] = pre \o n
                  => reviews[i].text = pre \o <<PHONE_REDACTED>>
        /\ submitted[i] \in LongDigitRuns => reviews[i].text = submitted[i]

\* C22: the frame of the background updates.  No step removes a stored
\* review or changes its id, session, location, rating, text or topic; a
\* step changes at most one stored review, and of that review either the
\* sentiment or the reply, never both.
FrameOfUpdates ==
    [][/\ Len(reviews') >= Len(reviews)
       /\ \A i \in 1..Len(reviews) :
             /\ reviews'[i].id = reviews[i].id
             /\ reviews'[i].session_id = reviews[i].session_id
             /\ reviews'[i].location = reviews[i].location
             /\ reviews'[i].rating = reviews[i].rating
             /\ reviews'[i].text = reviews[i].text
             /\ reviews'[i].topic = reviews[i].topic
             /\ \/ reviews'[i].sentiment = reviews[i].sentiment
                \/ reviews'[i].reply = reviews[i].reply
       /\ \A i, j \in 1..Len(reviews) :
             (reviews'[i] # reviews[i] /\ reviews'[j] # reviews[j]) => i = j
      ]_vars

\* Two reviews are stored; one has had both its sentiment and its reply
\* written and the other neither.
FrameOfUpdatesWitness ==
    \E i, j \in 1..Len(reviews) :
        /\ reviews[i].sentiment # NULL
        /\ reviews[i].reply # NoReply
        /\ reviews[j].sentiment = NULL
        /\ reviews[j].reply = NoReply

\* C23: reply persistence is scheduled when the reply has been generated
\* and runs after the response is fixed, and what it writes is the reply
\* that was returned.  In every step: a stored reply changes only to the
\* reply of a scheduled save_reply_to_db task for that id, which thereby
\* ends; a task is scheduled only in the step in which a suggest-reply
\* handler returns status 200, for the id of that request and with the reply
\* of that response; and that step writes nothing to the store.
PersistedReplyIsReturned ==
    [][/\ \A i \in 1..Len(reviews) :
             reviews'[i].reply # reviews[i].reply
                => \E k \in 1..Len(background_tasks) :
                       /\ background_tasks[k].review_id = reviews[i].id
                       /\ background_tasks[k].reply = reviews'[i].reply
                       /\ background_tasks' = Without(background_tasks, k)
       /\ Len(background_tasks') > Len(background_tasks)
             => LET task == background_tasks'[Len(background_tasks')]
                IN  /\ reviews' = reviews
                    /\ \/ \E h \in Sessions, id \in ReviewIds :
                             LET out == suggest_reply(h, id, TRUE)
                             IN  /\ out.response.status = 200
                                 /\ out.tasks = background_tasks'
                                 /\ task.review_id = id
                                 /\ task.reply = out.response.body[1].reply
                       \/ \E k \in 1..Len(reply_requests), o \in ReplyOutcomes :
                             LET ret == suggest_reply_return(reply_requests[k], o)
                             IN  /\ ret.response.status = 200
                                 /\ reply_requests' = Without(reply_requests, k)
                                 /\ task.review_id = reply_requests[k].review_id
                                 /\ task.reply = ret.response.body[1].reply
      ]_vars

\* The model's reply to a review has been returned and then persisted, and
\* nothing is pending.
PersistedReplyIsReturnedWitness ==
    \E i \in 1..Len(reviews) :
        /\ reviews[i].reply = ModelReply
        /\ Pending = 0

\* C24: the sentiment update and the reply update of one review commute.
\* Wherever a sentiment task and a save_reply_to_db task for the same review
\* are both still to run, the two updates give the same table in either
\* order, and in it the review carries both the sentiment and the reply; and
\* in every step, the update of one of the two columns of a review leaves
\* what the other update has written there.
UpdatesCommute ==
    [][/\ \A t \in analysis_tasks, k \in 1..Len(background_tasks),
            s \in Labels \cup {"", "mixed"} :
             background_tasks[k].review_id = t.review.id
                => LET id == t.review.id
                       r == background_tasks[k].reply
                       sentiment_first ==
                           UpdateColumn(UpdateColumn(reviews, id, "sentiment",
                                                     s, TRUE),
                                        id, "reply", r, TRUE)
                       reply_first ==
                           UpdateColumn(UpdateColumn(reviews, id, "reply",
                                                     r, TRUE),
                                        id, "sentiment", s, TRUE)
                   IN  /\ sentiment_first = reply_first
                       /\ \E i \in 1..Len(reviews) :
                             /\ reviews[i].id = id
                             /\ reply_first[i].sentiment = s
                             /\ reply_first[i].reply = r
       /\ \A i \in 1..Len(reviews) :
             /\ (reviews[i].reply # NoReply
                   /\ reviews'[i].sentiment # reviews[i].sentiment)
                   => reviews'[i].reply = reviews[i].reply
             /\ (reviews[i].sentiment # NULL
                   /\ reviews'[i].reply # reviews[i].reply)
                   => reviews'[i].sentiment = reviews[i].sentiment
      ]_vars

\* Both updates of a review have run: it carries a label and a reply, and
\* no task is left.
UpdatesCommuteWitness ==
    \E i \in 1..Len(reviews) :
        /\ reviews[i].sentiment \in Labels
        /\ reviews[i].reply # NoReply
        /\ analysis_tasks = {}
        /\ Pending = 0

=============================================================================
